---- MODULE Spec2Model ----
(***************************************************************************)
(* Link analyzer: URL normalisation, link graph construction, page metrics *)
(* and page classification (link_graph.py), and the parallel external link *)
(* checker (http_checker.py).                                              *)
(*                                                                         *)
(* Python strings are modelled as sequences of one-character strings, so   *)
(* that split, startswith, endswith, lower, unquote and sorted are         *)
(* computed character by character, as the interpreter computes them.      *)
(***************************************************************************)
EXTENDS Integers, Sequences, FiniteSets, TLC

VARIABLES
    \* ---- normalize_url applied to an arbitrary string ----
    norm_pc,              \* "idle" | "input" | "once" | "twice"
    norm_in,              \* the raw string handed to normalize_url
    norm_out,             \* normalize_url(norm_in)
    norm_out2,            \* normalize_url(norm_out)
    \* ---- LinkGraphAnalyzer ----
    pc,                   \* position in analyze(): "idle" | "build" | "metrics" | ...
    excluded_paths,       \* self.excluded_paths
    excluded_extensions,  \* self.excluded_extensions
    processed,            \* files of html_files the loop of build_graph has visited
    docs,                 \* per file: what the loop body did with it
    link_graph,           \* self.link_graph: page -> list of targets
    all_pages,            \* self.all_pages
    inbound_from,         \* the reverse graph built by calculate_metrics
    metrics,              \* self.metrics: page -> PageMetrics
    metrics_keys,         \* insertion order of self.metrics (iteration order of all_pages)
    thresholds,           \* the arguments analyze() passed to the find_* methods so far
    orphans,              \* result of find_orphans
    underlinked,          \* result of find_underlinked
    overlinked,           \* result of find_overlinked
    link_sinks,           \* result of find_link_sinks
    \* ---- HTTPLinkChecker ----
    hpc,                  \* main thread: "idle" | "ready" | "collect" | "returned", and
                          \* when interrupted "shutdown" | "raised"
    max_workers,          \* self.max_workers
    retry_count,          \* self.retry_count
    calls,                \* number of check_urls calls started on this instance
    submitted,            \* the keys of urls_with_info of the current call, in dict order
    queue,                \* work items of the executor no worker has taken yet
    future,               \* per URL: "none" | "pending" | "head" | "get" | "sleep" | "finished"
    attempt,              \* per URL: the loop variable of check_url
    fresult,              \* per URL: what check_single returned (the future's result)
    exchange,             \* per URL: the requests of check_url's last attempt and what
                          \* each did, kept until the future's result is collected (a
                          \* record of the run, read by no action)
    yielded,              \* futures as_completed has yielded to the main thread
    results,              \* self.results
    returned,             \* the list the last check_urls call returned
    \* ---- filter_false_positives ----
    filter_pc,            \* "idle" | "call" | "done"
    filter_results,       \* the argument results
    bot_blocker_domains,  \* the argument bot_blocker_domains (None, or a list)
    ignore_status_codes,  \* the argument ignore_status_codes (None, or a list)
    real_broken,          \* first list returned
    false_positives,      \* second list returned
    \* ProgressTracker (shared/utils.py)
    items,                \* the items handed to the last start(), as they were then
    pending,              \* state["pending"]
    current,              \* state["current"]: NoItem (None) or an item
    completed,            \* state["completed"]
    failed,               \* state["failed"]: the "item" entries of the dicts
    \* OutboundLinksAnalyzer.is_outbound_link (outbound_links.py)
    ob_pc,                \* "idle" | "call" | "done"
    internal_domains,     \* the list handed to __init__
    ob_href,              \* the argument of is_outbound_link
    ob_outbound,          \* the value it returned
    \* the main() functions of link_graph.py and http_checker.py
    cli_pc,               \* "idle" | "link_graph" | "http_checker" | "done"
    args,                 \* the options on the command line, each given or not
    config,               \* the keys of the config file, each present or not
    settings              \* the values main() hands to the analyzer or checker

normVars == <<norm_pc, norm_in, norm_out, norm_out2>>
graphVars == <<pc, excluded_paths, excluded_extensions, processed, docs, link_graph,
               all_pages, inbound_from, metrics, metrics_keys, thresholds,
               orphans, underlinked, overlinked, link_sinks>>
httpVars == <<hpc, max_workers, retry_count, calls, submitted, queue, future, attempt,
              fresult, exchange, yielded, results, returned>>
filterVars == <<filter_pc, filter_results, bot_blocker_domains, ignore_status_codes,
                real_broken, false_positives>>
progressVars == <<items, pending, current, completed, failed>>
outboundVars == <<ob_pc, internal_domains, ob_href, ob_outbound>>
cliVars == <<cli_pc, args, config, settings>>
toolVars == <<filterVars, progressVars, outboundVars, cliVars>>
vars == <<normVars, graphVars, httpVars, toolVars>>

(***************************************************************************)
(* Python string and list primitives.                                      *)
(***************************************************************************)
Contains(s, c) == \E i \in 1..Len(s) : s[i] = c

IndexOf(s, c) == CHOOSE i \in 1..Len(s) : s[i] = c /\ \A j \in 1..(i - 1) : s[j] # c

\* s.split(c)[0]
SplitFirst(s, c) == IF Contains(s, c) THEN SubSeq(s, 1, IndexOf(s, c) - 1) ELSE s

\* s.split(c)[-1]
SplitLast(s, c) ==
    IF Contains(s, c)
    THEN LET last == CHOOSE i \in 1..Len(s) :
                         s[i] = c /\ \A j \in (i + 1)..Len(s) : s[j] # c
         IN SubSeq(s, last + 1, Len(s))
    ELSE s

StartsWith(s, p) == Len(p) <= Len(s) /\ SubSeq(s, 1, Len(p)) = p

EndsWith(s, p) == Len(p) <= Len(s) /\ SubSeq(s, Len(s) - Len(p) + 1, Len(s)) = p

\* code points of the characters the model uses
Ord(c) ==
    CASE c = "\"" -> 34 [] c = "#" -> 35 [] c = "%" -> 37 [] c = "." -> 46
      [] c = "/" -> 47  [] c = "2" -> 50 [] c = "3" -> 51 [] c = "5" -> 53
      [] c = "?" -> 63  [] c = "D" -> 68 [] c = "F" -> 70 [] c = "P" -> 80
      [] c = "R" -> 82  [] c = "S" -> 83 [] c = "U" -> 85 [] c = "_" -> 95
      [] c = "a" -> 97  [] c = "b" -> 98 [] c = "c" -> 99 [] c = "d" -> 100
      [] c = "e" -> 101 [] c = "f" -> 102 [] c = "h" -> 104 [] c = "i" -> 105
      [] c = "l" -> 108 [] c = "m" -> 109 [] c = "n" -> 110 [] c = "p" -> 112
      [] c = "t" -> 116 [] c = "x" -> 120
      [] OTHER -> 65533

\* str.lower() on one character
LowerChar(c) ==
    CASE c = "D" -> "d" [] c = "F" -> "f" [] c = "P" -> "p" [] c = "R" -> "r"
      [] c = "S" -> "s" [] c = "U" -> "u" [] c = "X" -> "x"
      [] OTHER -> c

Lower(s) == [i \in 1..Len(s) |-> LowerChar(s[i])]

\* s < t for Python strings: lexicographic on code points
StrLess(s, t) ==
    \E k \in 1..(Len(t)) :
        /\ k <= Len(s) + 1
        /\ \A j \in 1..(k - 1) : s[j] = t[j]
        /\ \/ k = Len(s) + 1
           \/ (k <= Len(s) /\ Ord(s[k]) < Ord(t[k]))

(***************************************************************************)
(* urllib.parse.unquote: one left-to-right pass; "%" followed by two hex   *)
(* digits becomes the byte they spell, any other "%" stays. A byte of 0x80 *)
(* or more that is no valid UTF-8 decodes (errors='replace') to U+FFFD.    *)
(***************************************************************************)
HexDigits == {"0", "1", "2", "3", "4", "5", "6", "7", "8", "9",
              "A", "B", "C", "D", "E", "F", "a", "b", "c", "d", "e", "f"}

ReplacementChar == "U+FFFD"

\* the byte table, for the pairs that the digits 2, 3, 5 and F can spell
HexToChar(h, l) ==
    CASE h = "2" /\ l = "2" -> "\""
      [] h = "2" /\ l = "3" -> "#"
      [] h = "2" /\ l = "5" -> "%"
      [] h = "2" /\ l = "F" -> "/"
      [] h = "3" /\ l = "2" -> "2"
      [] h = "3" /\ l = "3" -> "3"
      [] h = "3" /\ l = "5" -> "5"
      [] h = "3" /\ l = "F" -> "?"
      [] h = "5" /\ l = "2" -> "R"
      [] h = "5" /\ l = "3" -> "S"
      [] h = "5" /\ l = "5" -> "U"
      [] h = "5" /\ l = "F" -> "_"
      [] OTHER -> ReplacementChar

RECURSIVE unquote(_)
unquote(s) ==
    IF s = <<>> THEN <<>>
    ELSE IF Head(s) = "%" /\ Len(s) >= 3 /\ s[2] \in HexDigits /\ s[3] \in HexDigits
         THEN <<HexToChar(s[2], s[3])>> \o unquote(SubSeq(s, 4, Len(s)))
         ELSE <<Head(s)>> \o unquote(Tail(s))

(***************************************************************************)
(* LinkGraphAnalyzer.normalize_url                                         *)
(***************************************************************************)
\* normalize_url decoding before it cuts the fragment and the query string
normalize_url_decode_first(url) ==
    LET u0 == unquote(url)
        u1 == IF Contains(u0, "#") THEN SplitFirst(u0, "#") ELSE u0
        u3 == IF Contains(u1, "?") THEN SplitFirst(u1, "?") ELSE u1
        u4 == IF ~StartsWith(u3, <<"/">>) THEN <<"/">> \o u3 ELSE u3
    IN IF ~EndsWith(u4, <<"/">>) /\ ~Contains(SplitLast(u4, "/"), ".")
       THEN u4 \o <<"/">>
       ELSE u4

normalize_url(url) ==
    LET u1 == IF Contains(url, "#") THEN SplitFirst(url, "#") ELSE url
        u2 == IF Contains(u1, "?") THEN SplitFirst(u1, "?") ELSE u1
        u3 == unquote(u2)
        u4 == IF ~StartsWith(u3, <<"/">>) THEN <<"/">> \o u3 ELSE u3
    IN IF ~EndsWith(u4, <<"/">>) /\ ~Contains(SplitLast(u4, "/"), ".")
       THEN u4 \o <<"/">>
       ELSE u4


(***************************************************************************)
(* Bounds of the model.                                                    *)
(***************************************************************************)
MaxLen == 4          \* longest raw string handed to normalize_url on its own
MaxHrefs == 2        \* most anchors in one document
MaxThreshold == 3    \* largest under-linked threshold passed to analyze()
MaxRetry == 2        \* largest retry_count an HTTPLinkChecker is built with
MaxWorkers == 2      \* largest max_workers an HTTPLinkChecker is built with
MaxCalls == 2        \* most check_urls calls on one HTTPLinkChecker
MaxProbes == 3       \* most URLs one HTTPLinkChecker is given over all its calls
MaxResults == 2      \* longest list of results handed to filter_false_positives

SeqsUpTo(S, n) == UNION {[1..k -> S] : k \in 0..n}

\* the orders in which a Python set of these elements may be iterated
Perms(S) ==
    {s \in [1..Cardinality(S) -> S] : \A i, j \in 1..Cardinality(S) : i # j => s[i] # s[j]}

Range(s) == {s[i] : i \in 1..Len(s)}

\* sorted(s) for a list of strings
Sorted(s) ==
    LET n == Len(s)
        rank(i) == 1 + Cardinality({j \in 1..n :
                        /\ j # i
                        /\ \/ StrLess(s[j], s[i])
                           \/ (s[j] = s[i] /\ j < i)})
    IN [k \in 1..n |-> s[CHOOSE i \in 1..n : rank(i) = k]]

\* sorted(rows, key=..., reverse=...) where keys[i] is the integer key of
\* rows[i]: a stable sort, so rows whose keys are equal keep the order they
\* have in rows, with reverse=True too
SortedByKey(rows, keys, reverse) ==
    LET n == Len(rows)
        before(j, i) == IF reverse THEN keys[j] > keys[i] ELSE keys[j] < keys[i]
        rank(i) == 1 + Cardinality({j \in 1..n :
                        /\ j # i
                        /\ \/ before(j, i)
                           \/ (keys[j] = keys[i] /\ j < i)})
    IN [k \in 1..n |-> rows[CHOOSE i \in 1..n : rank(i) = k]]

\* s[:n]
Prefix(s, n) == SubSeq(s, 1, IF Len(s) < n THEN Len(s) ELSE n)

(***************************************************************************)
(* The corpus: the files glob('**/*.html') finds under dist_path, and the  *)
(* href values the anchors of a document may carry.                        *)
(***************************************************************************)
IndexHtml == <<"i", "n", "d", "e", "x", ".", "h", "t", "m", "l">>
DotHtml == <<".", "h", "t", "m", "l">>

FileIndex == IndexHtml                       \* index.html
FileA == <<"a">> \o DotHtml                  \* a.html
FileADir == <<"a", "/">> \o IndexHtml        \* a/index.html

HtmlFiles == {FileIndex, FileA, FileADir}

HrefA == <<"/", "a">>                        \* /a
HrefB == <<"/", "b", "#", "x">>              \* /b#x
HrefPdf == <<"/", "c", ".", "P", "D", "F">>  \* /c.PDF
HrefRel == <<"b">>                           \* b (relative)

Hrefs == {HrefA, HrefB, HrefPdf, HrefRel}

\* constructor arguments of LinkGraphAnalyzer
Configs ==
    { [paths |-> {}, exts |-> {<<".", "p", "d", "f">>}],
      [paths |-> {<<"/", "a">>}, exts |-> {<<".", "p", "d", "f">>}],
      [paths |-> {<<"/", "b">>}, exts |-> {<<".", "P", "D", "F">>}] }

PageRoot == <<"/">>
PageA == <<"/", "a", "/">>
PageB == <<"/", "b", "/">>
PagePdf == <<"/", "c", ".", "P", "D", "F">>

(***************************************************************************)
(* LinkGraphAnalyzer                                                       *)
(***************************************************************************)
file_path_to_url(file_path) ==
    LET url == <<"/">> \o file_path
    IN IF EndsWith(url, <<"/">> \o IndexHtml)
       THEN normalize_url(SubSeq(url, 1, Len(url) - 10))
       ELSE IF EndsWith(url, DotHtml)
            THEN normalize_url(SubSeq(url, 1, Len(url) - 5) \o <<"/">>)
            ELSE normalize_url(url)

is_excluded(url) ==
    \/ \E pattern \in excluded_paths : StartsWith(url, pattern)
    \/ \E ext \in excluded_extensions : EndsWith(Lower(url), ext)

\* content: the href values of the anchors of the document, in document order
RECURSIVE extract_internal_links(_)
extract_internal_links(content) ==
    IF content = <<>> THEN <<>>
    ELSE LET href == Head(content)
             rest == extract_internal_links(Tail(content))
         IN IF StartsWith(href, <<"/">>) /\ ~is_excluded(normalize_url(href))
            THEN <<normalize_url(href)>> \o rest
            ELSE rest

\* list(set(links)): the distinct links, in any order
unique_links_of(links) == Perms(Range(links))

Assign(f, k, v) == [x \in DOMAIN f \cup {k} |-> IF x = k THEN v ELSE f[x]]

\* dict.get(key, [])
Get(f, k) == IF k \in DOMAIN f THEN f[k] ELSE <<>>

\* self.all_pages after a document was read: the source (line 142) and every
\* kept target (lines 155-156); the variant forgets the targets
pages_after_sources_only(source_url, unique_links) == all_pages \cup {source_url}

pages_after(source_url, unique_links) ==
    all_pages \cup {source_url} \cup Range(unique_links)

\* one iteration of the loop of build_graph, on file_path; readable is false
\* when open/read/parse raises and the except branch logs the error
ProcessFile(file_path, content, readable) ==
    /\ pc = "build"
    /\ file_path \in HtmlFiles \ processed
    /\ processed' = processed \cup {file_path}
    /\ LET source_url == file_path_to_url(file_path)
       IN IF is_excluded(source_url)
          THEN /\ docs' = [docs EXCEPT ![file_path] = [status |-> "excluded", links |-> {}]]
               /\ UNCHANGED <<link_graph, all_pages>>
          ELSE IF ~readable
               THEN /\ all_pages' = all_pages \cup {source_url}
                    /\ docs' = [docs EXCEPT ![file_path] = [status |-> "error", links |-> {}]]
                    /\ UNCHANGED link_graph
               ELSE LET links == extract_internal_links(content)
                    IN \E unique_links \in unique_links_of(links) :
                        /\ link_graph' = Assign(link_graph, source_url, unique_links)
                        /\ all_pages' = pages_after(source_url, unique_links)
                        /\ docs' = [docs EXCEPT ![file_path] =
                                        [status |-> "read", links |-> Range(links)]]
    /\ UNCHANGED <<pc, excluded_paths, excluded_extensions, inbound_from, metrics,
                   metrics_keys, thresholds, orphans, underlinked, overlinked, link_sinks>>
    /\ UNCHANGED <<normVars, httpVars, toolVars>>

BuildStep ==
    \E file_path \in HtmlFiles, content \in SeqsUpTo(Hrefs, MaxHrefs), readable \in BOOLEAN :
        ProcessFile(file_path, content, readable)

\* inbound / outbound rounded to 2 decimals, in hundredths (ties go to the even
\* hundredth, as round() does on a quotient that is exact in binary)
RoundedRatio(inbound_count, outbound_count) ==
    LET fl == (100 * inbound_count) \div outbound_count
        rem == (100 * inbound_count) % outbound_count
    IN IF 2 * rem < outbound_count THEN fl
       ELSE IF 2 * rem > outbound_count THEN fl + 1
       ELSE IF fl % 2 = 0 THEN fl ELSE fl + 1

\* the value stored in PageMetrics.ratio, in hundredths: -100 is the -1 that
\* stands for float('inf')
Ratio(inbound_count, outbound_count) ==
    IF outbound_count = 0
    THEN (IF inbound_count > 0 THEN -100 ELSE 0)
    ELSE RoundedRatio(inbound_count, outbound_count)

\* the reverse graph: for each target, the sources whose list holds it, once
\* per occurrence. The code appends in the iteration order of link_graph; the
\* lists are read only through len() and sorted(), so they are kept sorted.
RECURSIVE Occurrences(_, _)
Occurrences(targets, target) ==
    IF targets = <<>> THEN 0
    ELSE (IF Head(targets) = target THEN 1 ELSE 0) + Occurrences(Tail(targets), target)

RECURSIVE Repeat(_, _)
Repeat(x, n) == IF n <= 0 THEN <<>> ELSE <<x>> \o Repeat(x, n - 1)

RECURSIVE SourcesOf(_, _)
SourcesOf(sources, target) ==
    IF sources = <<>> THEN <<>>
    ELSE Repeat(Head(sources), Occurrences(link_graph[Head(sources)], target))
            \o SourcesOf(Tail(sources), target)

SortedKeys(f) == Sorted(CHOOSE s \in Perms(DOMAIN f) : TRUE)

\* a reverse graph that leaves out the links of a page to itself
reverse_graph_without_self_links ==
    LET targets == UNION {Range(link_graph[s]) : s \in DOMAIN link_graph}
    IN [t \in targets |->
            SelectSeq(SourcesOf(SortedKeys(link_graph), t), LAMBDA s : s # t)]

reverse_graph ==
    LET targets == UNION {Range(link_graph[s]) : s \in DOMAIN link_graph}
    IN [t \in targets |-> SourcesOf(SortedKeys(link_graph), t)]

PageMetrics(page, rev) ==
    LET inbound_list == Get(rev, page)
        outbound_list == Get(link_graph, page)
    IN [url |-> page,
        inbound |-> Len(inbound_list),
        outbound |-> Len(outbound_list),
        ratio |-> Ratio(Len(inbound_list), Len(outbound_list)),
        inbound_from |-> Prefix(Sorted(inbound_list), 10),
        outbound_to |-> Prefix(Sorted(outbound_list), 10)]

\* the pages calculate_metrics iterates over: 'for page in self.all_pages';
\* the variant iterates over the sources only
metrics_pages_sources_only == DOMAIN link_graph

metrics_pages == all_pages

calculate_metrics ==
    /\ pc = "build"
    /\ processed = HtmlFiles
    /\ inbound_from' = reverse_graph
    /\ \E order \in Perms(metrics_pages) :
        /\ metrics_keys' = order
        /\ metrics' = [page \in metrics_pages |-> PageMetrics(page, reverse_graph)]
    /\ pc' = "orphans"
    /\ UNCHANGED <<excluded_paths, excluded_extensions, processed, docs, link_graph,
                   all_pages, thresholds, orphans, underlinked, overlinked, link_sinks>>
    /\ UNCHANGED <<normVars, httpVars, toolVars>>


\* the find_* methods iterate over self.metrics.items(), that is over
\* metrics_keys, the insertion order of the dict

\* find_orphans without the homepage exemption
find_orphans_with_homepage ==
    Sorted(SelectSeq(metrics_keys, LAMBDA page : metrics[page].inbound = 0))

find_orphans ==
    Sorted(SelectSeq(metrics_keys,
                     LAMBDA page : metrics[page].inbound = 0 /\ page # PageRoot))

\* find_underlinked with 'inbound <= threshold'
find_underlinked_inclusive(threshold) ==
    LET kept == SelectSeq(metrics_keys, LAMBDA page :
                    0 < metrics[page].inbound /\ metrics[page].inbound <= threshold)
        rows == [i \in 1..Len(kept) |->
                    [url |-> kept[i],
                     inbound |-> metrics[kept[i]].inbound,
                     inbound_from |-> metrics[kept[i]].inbound_from]]
    IN SortedByKey(rows, [i \in 1..Len(rows) |-> rows[i].inbound], FALSE)

find_underlinked(threshold) ==
    LET kept == SelectSeq(metrics_keys, LAMBDA page :
                    0 < metrics[page].inbound /\ metrics[page].inbound < threshold)
        rows == [i \in 1..Len(kept) |->
                    [url |-> kept[i],
                     inbound |-> metrics[kept[i]].inbound,
                     inbound_from |-> metrics[kept[i]].inbound_from]]
    IN SortedByKey(rows, [i \in 1..Len(rows) |-> rows[i].inbound], FALSE)

find_overlinked(threshold) ==
    LET kept == SelectSeq(metrics_keys, LAMBDA page : metrics[page].outbound > threshold)
        rows == [i \in 1..Len(kept) |->
                    [url |-> kept[i], outbound |-> metrics[kept[i]].outbound]]
    IN SortedByKey(rows, [i \in 1..Len(rows) |-> rows[i].outbound], TRUE)

\* find_link_sinks with 'outbound < max_outbound'
find_link_sinks_strict(min_inbound, max_outbound) ==
    LET kept == SelectSeq(metrics_keys, LAMBDA page :
                    /\ metrics[page].inbound >= min_inbound
                    /\ metrics[page].outbound < max_outbound)
        rows == [i \in 1..Len(kept) |->
                    [url |-> kept[i],
                     inbound |-> metrics[kept[i]].inbound,
                     outbound |-> metrics[kept[i]].outbound]]
    IN SortedByKey(rows, [i \in 1..Len(rows) |-> rows[i].inbound], TRUE)

find_link_sinks(min_inbound, max_outbound) ==
    LET kept == SelectSeq(metrics_keys, LAMBDA page :
                    /\ metrics[page].inbound >= min_inbound
                    /\ metrics[page].outbound <= max_outbound)
        rows == [i \in 1..Len(kept) |->
                    [url |-> kept[i],
                     inbound |-> metrics[kept[i]].inbound,
                     outbound |-> metrics[kept[i]].outbound]]
    IN SortedByKey(rows, [i \in 1..Len(rows) |-> rows[i].inbound], TRUE)

\* the values analyze() is called with
UnderlinkedThresholds == 0..MaxThreshold
OverlinkedThresholds == {0, 1}
SinkMinInbounds == {1, 2}
SinkMaxOutbounds == {0, 1}

\* analyze(): orphans = self.find_orphans()
FindOrphans ==
    /\ pc = "orphans"
    /\ orphans' = find_orphans
    /\ pc' = "underlinked"
    /\ UNCHANGED <<excluded_paths, excluded_extensions, processed, docs, link_graph,
                   all_pages, inbound_from, metrics, metrics_keys, thresholds,
                   underlinked, overlinked, link_sinks>>
    /\ UNCHANGED <<normVars, httpVars, toolVars>>

\* analyze(): underlinked = self.find_underlinked(underlinked_threshold)
FindUnderlinked ==
    /\ pc = "underlinked"
    /\ \E threshold \in UnderlinkedThresholds :
        /\ underlinked' = find_underlinked(threshold)
        /\ thresholds' = [thresholds EXCEPT !.underlinked = threshold]
    /\ pc' = "overlinked"
    /\ UNCHANGED <<excluded_paths, excluded_extensions, processed, docs, link_graph,
                   all_pages, inbound_from, metrics, metrics_keys,
                   orphans, overlinked, link_sinks>>
    /\ UNCHANGED <<normVars, httpVars, toolVars>>

\* analyze(): overlinked = self.find_overlinked(overlinked_threshold)
FindOverlinked ==
    /\ pc = "overlinked"
    /\ \E threshold \in OverlinkedThresholds :
        /\ overlinked' = find_overlinked(threshold)
        /\ thresholds' = [thresholds EXCEPT !.overlinked = threshold]
    /\ pc' = "sinks"
    /\ UNCHANGED <<excluded_paths, excluded_extensions, processed, docs, link_graph,
                   all_pages, inbound_from, metrics, metrics_keys,
                   orphans, underlinked, link_sinks>>
    /\ UNCHANGED <<normVars, httpVars, toolVars>>

\* analyze(): link_sinks = self.find_link_sinks(sink_min_inbound, sink_max_outbound)
FindLinkSinks ==
    /\ pc = "sinks"
    /\ \E min_inbound \in SinkMinInbounds, max_outbound \in SinkMaxOutbounds :
        /\ link_sinks' = find_link_sinks(min_inbound, max_outbound)
        /\ thresholds' = [thresholds EXCEPT !.sink_min_inbound = min_inbound,
                                            !.sink_max_outbound = max_outbound]
    /\ pc' = "done"
    /\ UNCHANGED <<excluded_paths, excluded_extensions, processed, docs, link_graph,
                   all_pages, inbound_from, metrics, metrics_keys,
                   orphans, underlinked, overlinked>>
    /\ UNCHANGED <<normVars, httpVars, toolVars>>

(***************************************************************************)
(* Initial states. Each specification runs one component; the variables of *)
(* the other components stay at their idle values.                         *)
(***************************************************************************)
NormIdle ==
    /\ norm_pc = "idle"
    /\ norm_in = <<>>
    /\ norm_out = <<>>
    /\ norm_out2 = <<>>

\* LinkGraphAnalyzer.__init__
GraphFields ==
    /\ processed = {}
    /\ docs = [f \in HtmlFiles |-> [status |-> "pending", links |-> {}]]
    /\ link_graph = <<>>
    /\ all_pages = {}
    /\ inbound_from = <<>>
    /\ metrics = <<>>
    /\ metrics_keys = <<>>
    /\ thresholds = [underlinked |-> 0, overlinked |-> 0,
                     sink_min_inbound |-> 0, sink_max_outbound |-> 0]
    /\ orphans = <<>>
    /\ underlinked = <<>>
    /\ overlinked = <<>>
    /\ link_sinks = <<>>

GraphIdle ==
    /\ pc = "idle"
    /\ excluded_paths = {}
    /\ excluded_extensions = {}
    /\ GraphFields

GraphInit ==
    /\ pc = "build"
    /\ \E cfg \in Configs :
        /\ excluded_paths = cfg.paths
        /\ excluded_extensions = cfg.exts
    /\ GraphFields


(***************************************************************************)
(* HTTPLinkChecker. The carried-over 'occurrences' and 'sample_pages' of a *)
(* result are copies of the caller's info and are left out.                *)
(***************************************************************************)
Urls == <<"u1", "u2", "u3">>

\* the key orders of urls_with_info: the URLs are interchangeable, so the
\* dicts are the subsequences of Urls
UrlDicts == {SelectSeq(Urls, LAMBDA u : u \in S) : S \in SUBSET Range(Urls)}

StatusCodes == {200, 399, 403, 404, 405}

\* exception classes of requests.exceptions a request may raise;
\* InvalidSchema stands for the classes that reach 'except Exception'
Exceptions == {"ReadTimeout", "ConnectionError", "SSLError", "TooManyRedirects",
               "InvalidSchema"}

\* isinstance(exc, cls) for the classes check_url names
IsInstance(exc, cls) ==
    CASE cls = "Timeout" -> exc \in {"ReadTimeout", "ConnectTimeout"}
      [] cls = "ConnectionError" ->
            exc \in {"ConnectionError", "SSLError", "ProxyError", "ConnectTimeout"}
      [] cls = "TooManyRedirects" -> exc = "TooManyRedirects"
      [] cls = "SSLError" -> exc = "SSLError"
      [] OTHER -> TRUE

Response(c) == [raised |-> FALSE, status |-> c, exc |-> "-"]

Raised(e) == [raised |-> TRUE, status |-> 0, exc |-> e]

\* one call of requests.head or requests.get and what it did
Request(method, outcome) == [method |-> method, outcome |-> outcome]

\* what requests.head / requests.get may do
Outcomes == {Response(c) : c \in StatusCodes} \cup {Raised(e) : e \in Exceptions}

\* what a request to each URL of the model may do: u1 is a server that
\* answers, with a page, an unusual status or by refusing the method; u2 a
\* server that may answer, forbid the request or time out; u3 a URL whose
\* request fails
Behaviour(u) ==
    CASE u = "u1" -> {Response(399), Response(404), Response(405)}
      [] u = "u2" -> {Response(200), Response(403), Raised("ReadTimeout")}
      [] OTHER -> {Raised(e) : e \in Exceptions \ {"ReadTimeout"}}

\* status_code None
NoStatus == 0

\* response.reason
Reason(status) ==
    CASE status = 200 -> "OK"
      [] status = 403 -> "Forbidden"
      [] status = 404 -> "Not Found"
      [] status = 405 -> "Method Not Allowed"
      [] OTHER -> "-"

Result(url, status_code, status_message, is_broken) ==
    [url |-> url, status_code |-> status_code, status_message |-> status_message,
     is_broken |-> is_broken]

NoResult == Result("-", NoStatus, "-", FALSE)

\* the return statement with 'is_broken = response.status_code > 403'
response_result_above_403(url, status) == Result(url, status, Reason(status), status > 403)

\* the return statement after a response: lines 67-68
response_result(url, status) == Result(url, status, Reason(status), status >= 400)

\* the except clauses with a connection error retried like a timeout
except_result_connection_retried(url, exc, attempt_no) ==
    IF IsInstance(exc, "Timeout") \/ IsInstance(exc, "ConnectionError")
    THEN [retry |-> attempt_no # retry_count - 1,
          result |-> Result(url, NoStatus,
                            IF IsInstance(exc, "Timeout")
                            THEN "Timeout"
                            ELSE "Connection Error (Domain may not exist)", TRUE)]
    ELSE IF IsInstance(exc, "TooManyRedirects")
    THEN [retry |-> FALSE, result |-> Result(url, NoStatus, "Too Many Redirects", TRUE)]
    ELSE [retry |-> FALSE, result |-> Result(url, NoStatus, "Error", TRUE)]

\* the except clauses of check_url, tried in the order written; retry is
\* true when the clause falls through to time.sleep(1) and the next attempt
except_result(url, exc, attempt_no) ==
    IF IsInstance(exc, "Timeout")
    THEN [retry |-> attempt_no # retry_count - 1,
          result |-> Result(url, NoStatus, "Timeout", TRUE)]
    ELSE IF IsInstance(exc, "ConnectionError")
    THEN [retry |-> FALSE,
          result |-> Result(url, NoStatus, "Connection Error (Domain may not exist)", TRUE)]
    ELSE IF IsInstance(exc, "TooManyRedirects")
    THEN [retry |-> FALSE, result |-> Result(url, NoStatus, "Too Many Redirects", TRUE)]
    ELSE IF IsInstance(exc, "SSLError")
    THEN [retry |-> FALSE, result |-> Result(url, NoStatus, "SSL Certificate Error", TRUE)]
    ELSE [retry |-> FALSE, result |-> Result(url, NoStatus, "Error", TRUE)]

Running == {u \in Range(submitted) : future[u] \in {"head", "get", "sleep"}}

httpConfig == <<max_workers, retry_count>>

\* check_urls: the executor is created and every URL is submitted
CheckUrls(urls) ==
    /\ hpc \in {"ready", "returned"}
    /\ calls < MaxCalls
    /\ Len(results) + Len(urls) <= MaxProbes
    /\ calls' = calls + 1
    /\ submitted' = urls
    /\ queue' = urls
    /\ future' = [u \in Range(Urls) |-> IF u \in Range(urls) THEN "pending" ELSE "none"]
    /\ attempt' = [u \in Range(Urls) |-> 0]
    /\ fresult' = [u \in Range(Urls) |-> NoResult]
    /\ exchange' = [u \in Range(Urls) |-> <<>>]
    /\ yielded' = {}
    /\ hpc' = "collect"
    /\ UNCHANGED <<httpConfig, results, returned>>
    /\ UNCHANGED <<normVars, graphVars, toolVars>>

\* check_url returns: its loop variable is gone, the future holds the result
Finish(u, result) ==
    /\ future' = [future EXCEPT ![u] = "finished"]
    /\ fresult' = [fresult EXCEPT ![u] = result]
    /\ attempt' = [attempt EXCEPT ![u] = 0]

\* an executor that starts a thread for every work item, whatever max_workers
StartProbeUnbounded ==
    /\ hpc \in {"collect", "shutdown"}
    /\ queue # <<>>
    /\ LET u == Head(queue)
       IN /\ queue' = Tail(queue)
          /\ IF retry_count <= 0
             THEN Finish(u, Result(u, NoStatus, "Unknown Error", TRUE))
             ELSE /\ future' = [future EXCEPT ![u] = "head"]
                  /\ attempt' = [attempt EXCEPT ![u] = 0]
                  /\ UNCHANGED fresult
    /\ UNCHANGED <<hpc, httpConfig, calls, submitted, exchange, yielded, results, returned>>
    /\ UNCHANGED <<normVars, graphVars, toolVars>>

\* a worker thread takes the next work item and enters check_url: with
\* an empty range(retry_count) the loop body never runs
StartProbe ==
    /\ hpc \in {"collect", "shutdown"}
    /\ queue # <<>>
    /\ Cardinality(Running) < max_workers
    /\ LET u == Head(queue)
       IN /\ queue' = Tail(queue)
          /\ IF retry_count <= 0
             THEN Finish(u, Result(u, NoStatus, "Unknown Error", TRUE))
             ELSE /\ future' = [future EXCEPT ![u] = "head"]
                  /\ attempt' = [attempt EXCEPT ![u] = 0]
                  /\ UNCHANGED fresult
    /\ UNCHANGED <<hpc, httpConfig, calls, submitted, exchange, yielded, results, returned>>
    /\ UNCHANGED <<normVars, graphVars, toolVars>>

\* check_url without the final 'except Exception' clause: a fault that is none
\* of the named requests exceptions ends the call without a result
RaiseUncaught(u, exc) ==
    LET handled == except_result(u, exc, attempt[u])
    IN IF handled.retry
       THEN /\ future' = [future EXCEPT ![u] = "sleep"]
            /\ UNCHANGED <<fresult, attempt>>
       ELSE IF handled.result.status_message = "Error"
            THEN Finish(u, NoResult)
            ELSE Finish(u, handled.result)

\* an exception raised by requests.head or requests.get inside the try
Raise(u, exc) ==
    LET handled == except_result(u, exc, attempt[u])
    IN IF handled.retry
       THEN /\ future' = [future EXCEPT ![u] = "sleep"]
            /\ UNCHANGED <<fresult, attempt>>
       ELSE Finish(u, handled.result)

\* check_url falling back to GET on 405 only
HeadRequestFallback405Only(u, outcome) ==
    /\ hpc \in {"collect", "shutdown"}
    /\ future[u] = "head"
    /\ IF outcome.raised
       THEN Raise(u, outcome.exc)
       ELSE IF outcome.status \in {405}
            THEN /\ future' = [future EXCEPT ![u] = "get"]
                 /\ UNCHANGED <<fresult, attempt>>
            ELSE Finish(u, response_result(u, outcome.status))
    /\ exchange' = [exchange EXCEPT ![u] = <<Request("HEAD", outcome)>>]
    /\ UNCHANGED <<hpc, httpConfig, calls, submitted, queue, yielded, results, returned>>
    /\ UNCHANGED <<normVars, graphVars, toolVars>>

\* requests.head(url, ...)
HeadRequest(u, outcome) ==
    /\ hpc \in {"collect", "shutdown"}
    /\ future[u] = "head"
    /\ IF outcome.raised
       THEN Raise(u, outcome.exc)
       ELSE IF outcome.status \in {405, 403}
            THEN /\ future' = [future EXCEPT ![u] = "get"]
                 /\ UNCHANGED <<fresult, attempt>>
            ELSE Finish(u, response_result(u, outcome.status))
    /\ exchange' = [exchange EXCEPT ![u] = <<Request("HEAD", outcome)>>]
    /\ UNCHANGED <<hpc, httpConfig, calls, submitted, queue, yielded, results, returned>>
    /\ UNCHANGED <<normVars, graphVars, toolVars>>

\* requests.get(url, ..., stream=True), the first 1KB read and the response closed
GetRequest(u, outcome) ==
    /\ hpc \in {"collect", "shutdown"}
    /\ future[u] = "get"
    /\ IF outcome.raised
       THEN Raise(u, outcome.exc)
       ELSE Finish(u, response_result(u, outcome.status))
    /\ exchange' = [exchange EXCEPT ![u] = Append(exchange[u], Request("GET", outcome))]
    /\ UNCHANGED <<hpc, httpConfig, calls, submitted, queue, yielded, results, returned>>
    /\ UNCHANGED <<normVars, graphVars, toolVars>>

\* time.sleep(1) after a timeout, then the next iteration of the loop
SleepDone(u) ==
    /\ hpc \in {"collect", "shutdown"}
    /\ future[u] = "sleep"
    /\ attempt' = [attempt EXCEPT ![u] = attempt[u] + 1]
    /\ future' = [future EXCEPT ![u] = "head"]
    /\ UNCHANGED <<hpc, httpConfig, calls, submitted, queue, fresult, exchange, yielded,
                   results, returned>>
    /\ UNCHANGED <<normVars, graphVars, toolVars>>

\* a collector whose append is lost when another finished future is waiting
\* (two unserialised appends writing the same slot)
CollectUnserialised(u) ==
    /\ hpc = "collect"
    /\ future[u] = "finished"
    /\ u \notin yielded
    /\ yielded' = yielded \cup {u}
    /\ results' = IF \E v \in Range(submitted) \ (yielded \cup {u}) : future[v] = "finished"
                  THEN results
                  ELSE Append(results, fresult[u])
    /\ exchange' = [exchange EXCEPT ![u] = <<>>]
    /\ UNCHANGED <<hpc, httpConfig, calls, submitted, queue, future, attempt, fresult,
                   returned>>
    /\ UNCHANGED <<normVars, graphVars, toolVars>>

\* one iteration of 'for future in as_completed(future_to_url)', run by the
\* thread that called check_urls
Collect(u) ==
    /\ hpc = "collect"
    /\ future[u] = "finished"
    /\ u \notin yielded
    /\ yielded' = yielded \cup {u}
    /\ results' = Append(results, fresult[u])
    /\ exchange' = [exchange EXCEPT ![u] = <<>>]
    /\ UNCHANGED <<hpc, httpConfig, calls, submitted, queue, future, attempt, fresult,
                   returned>>
    /\ UNCHANGED <<normVars, graphVars, toolVars>>

\* a check_urls that leaves its loop at the first broken result
ReturnResultsOnFirstBroken ==
    /\ hpc = "collect"
    /\ \/ yielded = Range(submitted)
       \/ \E u \in yielded : fresult[u].is_broken
    /\ returned' = results
    /\ hpc' = "returned"
    /\ UNCHANGED <<httpConfig, calls, submitted, queue, future, attempt, fresult,
                   exchange, yielded, results>>
    /\ UNCHANGED <<normVars, graphVars, toolVars>>

\* as_completed is exhausted, the executor is shut down: return self.results
ReturnResults ==
    /\ hpc = "collect"
    /\ yielded = Range(submitted)
    /\ returned' = results
    /\ hpc' = "returned"
    /\ UNCHANGED <<httpConfig, calls, submitted, queue, future, attempt, fresult,
                   exchange, yielded, results>>
    /\ UNCHANGED <<normVars, graphVars, toolVars>>

\* KeyboardInterrupt raised in the thread that called check_urls while it
\* waits in as_completed: the loop is left and the with statement calls
\* executor.shutdown(wait=True), which cancels no future
KeyboardInterrupt ==
    /\ hpc = "collect"
    /\ yielded # Range(submitted)
    /\ hpc' = "shutdown"
    /\ UNCHANGED <<httpConfig, calls, submitted, queue, future, attempt, fresult,
                   exchange, yielded, results, returned>>
    /\ UNCHANGED <<normVars, graphVars, toolVars>>

\* shutdown(wait=True) has joined the worker threads, which ran every work
\* item: the exception leaves check_urls and no list is returned
ExecutorExit ==
    /\ hpc = "shutdown"
    /\ queue = <<>>
    /\ Running = {}
    /\ hpc' = "raised"
    /\ UNCHANGED <<httpConfig, calls, submitted, queue, future, attempt, fresult,
                   exchange, yielded, results, returned>>
    /\ UNCHANGED <<normVars, graphVars, toolVars>>

HttpIdle ==
    /\ hpc = "idle"
    /\ max_workers = 0
    /\ retry_count = 0
    /\ calls = 0
    /\ submitted = <<>>
    /\ queue = <<>>
    /\ future = [u \in Range(Urls) |-> "none"]
    /\ attempt = [u \in Range(Urls) |-> 0]
    /\ fresult = [u \in Range(Urls) |-> NoResult]
    /\ exchange = [u \in Range(Urls) |-> <<>>]
    /\ yielded = {}
    /\ results = <<>>
    /\ returned = <<>>

\* HTTPLinkChecker.__init__
HttpInit ==
    /\ hpc = "ready"
    /\ max_workers \in 1..MaxWorkers
    /\ retry_count \in 0..MaxRetry
    /\ calls = 0
    /\ submitted = <<>>
    /\ queue = <<>>
    /\ future = [u \in Range(Urls) |-> "none"]
    /\ attempt = [u \in Range(Urls) |-> 0]
    /\ fresult = [u \in Range(Urls) |-> NoResult]
    /\ exchange = [u \in Range(Urls) |-> <<>>]
    /\ yielded = {}
    /\ results = <<>>
    /\ returned = <<>>

(***************************************************************************)
(* filter_false_positives (http_checker.py), applied to the broken results  *)
(* of a check. URLs and domains are character sequences.                    *)
(***************************************************************************)
\* p in s, for strings
SubstringOf(p, s) == \E i \in 0..(Len(s) - Len(p)) : SubSeq(s, i + 1, i + Len(p)) = p

\* an optional argument: None, or the list passed
None == [given |-> FALSE, value |-> <<>>]
Passed(list) == [given |-> TRUE, value |-> list]

\* 'arg or default': None and the empty list are both falsy
OrDefault(arg, default) == IF arg.given /\ arg.value # <<>> THEN arg.value ELSE default

DefaultBotBlockers ==
    << <<"l", "i", "n", "k", "e", "d", "i", "n", ".", "c", "o", "m">>,
       <<"s", "t", "a", "c", "k", "o", "v", "e", "r", "f", "l", "o", "w", ".", "c", "o", "m">>,
       <<"t", "w", "i", "t", "t", "e", "r", ".", "c", "o", "m">>,
       <<"x", ".", "c", "o", "m">>,
       <<"f", "a", "c", "e", "b", "o", "o", "k", ".", "c", "o", "m">>,
       <<"i", "n", "s", "t", "a", "g", "r", "a", "m", ".", "c", "o", "m">>,
       <<"p", "i", "x", "a", "b", "a", "y", ".", "c", "o", "m">>,
       <<"u", "n", "s", "p", "l", "a", "s", "h", ".", "c", "o", "m">> >>

DefaultIgnoreCodes == <<403, 503, 520, 999>>

Mailto == <<"m", "a", "i", "l", "t", "o", ":">>
Tel == <<"t", "e", "l", ":">>

\* the body of the loop for one broken result: lines 144-160
is_false_positive(result, bot_blockers, ignore_codes) ==
    LET url == Lower(result.url)
    IN \/ \E i \in 1..Len(bot_blockers) : SubstringOf(bot_blockers[i], url)
       \/ \E i \in 1..Len(ignore_codes) : result.status_code = ignore_codes[i]
       \/ StartsWith(url, Mailto)
       \/ StartsWith(url, Tel)

filter_false_positives(result_list, domains, codes) ==
    LET bot_blockers == OrDefault(domains, DefaultBotBlockers)
        ignore_codes == OrDefault(codes, DefaultIgnoreCodes)
    IN [real_broken |->
            SelectSeq(result_list, LAMBDA r :
                r.is_broken /\ ~is_false_positive(r, bot_blockers, ignore_codes)),
        false_positives |->
            SelectSeq(result_list, LAMBDA r :
                r.is_broken /\ is_false_positive(r, bot_blockers, ignore_codes))]

\* the URLs of the results: a mail address, a phone number, a bot blocker
\* of the default list in lower and in upper case, and another site
UrlMailto == <<"m", "a", "i", "l", "t", "o", ":", "a">>
UrlTel == <<"t", "e", "l", ":", "1">>
UrlXCom == <<"/", "/", "x", ".", "c", "o", "m">>
UrlXComUpper == <<"/", "/", "X", ".", "c", "o", "m">>
UrlYOrg == <<"/", "/", "y", ".", "o", "r", "g">>
FilterUrls == {UrlMailto, UrlTel, UrlXCom, UrlXComUpper, UrlYOrg}

\* what check_url can have said of a URL: answered 200, 403 or 404, or failed
FilterVerdicts ==
    {[status_code |-> 200, is_broken |-> FALSE], [status_code |-> 403, is_broken |-> TRUE],
     [status_code |-> 404, is_broken |-> TRUE], [status_code |-> NoStatus, is_broken |-> TRUE]}

FilterResults ==
    {[url |-> u, status_code |-> v.status_code, is_broken |-> v.is_broken] :
        u \in FilterUrls, v \in FilterVerdicts}

\* the lists a caller passes: nothing, the empty list, a domain in lower
\* case and a domain as written with a capital
DomainArgs ==
    {None, Passed(<<>>), Passed(<<<<"y", ".", "o", "r", "g">>>>),
     Passed(<<<<"X", ".", "c", "o", "m">>>>)}

CodeArgs == {None, Passed(<<>>), Passed(<<404>>)}

FilterIdle ==
    /\ filter_pc = "idle"
    /\ filter_results = <<>>
    /\ bot_blocker_domains = None
    /\ ignore_status_codes = None
    /\ real_broken = <<>>
    /\ false_positives = <<>>

FilterInit ==
    /\ filter_pc = "call"
    /\ filter_results \in SeqsUpTo(FilterResults, MaxResults)
    /\ bot_blocker_domains \in DomainArgs
    /\ ignore_status_codes \in CodeArgs
    /\ real_broken = <<>>
    /\ false_positives = <<>>

\* real_broken, false_positives = filter_false_positives(...)
FilterFalsePositives ==
    /\ filter_pc = "call"
    /\ LET ret == filter_false_positives(filter_results, bot_blocker_domains,
                                         ignore_status_codes)
       IN /\ real_broken' = ret.real_broken
          /\ false_positives' = ret.false_positives
    /\ filter_pc' = "done"
    /\ UNCHANGED <<filter_results, bot_blocker_domains, ignore_status_codes>>
    /\ UNCHANGED <<normVars, graphVars, httpVars, progressVars, outboundVars, cliVars>>

(***************************************************************************)
(* ProgressTracker: a tracker constructed without a state file, then any   *)
(* sequence of start, mark_current, mark_completed and mark_failed calls.  *)
(* Timestamps, metadata and the saved file do not enter is_complete and    *)
(* are left out.                                                           *)
(***************************************************************************)
MaxItems == 2
MaxFailed == 2

TrackedItems == {"a", "b"}
NoItem == "None"

\* list.remove(x): the first occurrence goes
RemoveFirst(s, x) ==
    LET i == IndexOf(s, x)
    IN SubSeq(s, 1, i - 1) \o SubSeq(s, i + 1, Len(s))

\* _load_state() when the state file does not exist
ProgressIdle ==
    /\ items = <<>>
    /\ pending = <<>>
    /\ current = NoItem
    /\ completed = <<>>
    /\ failed = <<>>

\* start(items)
TrackerStart ==
    \E batch \in SeqsUpTo(TrackedItems, MaxItems) :
        /\ items' = batch
        /\ pending' = batch
        /\ completed' = <<>>
        /\ failed' = <<>>
        /\ current' = NoItem
        /\ UNCHANGED <<normVars, graphVars, httpVars, filterVars, outboundVars, cliVars>>

\* mark_current(item)
MarkCurrent ==
    \E item \in TrackedItems :
        /\ current' = item
        /\ pending' = IF Contains(pending, item) THEN RemoveFirst(pending, item)
                                                ELSE pending
        /\ UNCHANGED <<items, completed, failed>>
        /\ UNCHANGED <<normVars, graphVars, httpVars, filterVars, outboundVars, cliVars>>

\* mark_completed(item)
MarkCompleted ==
    \E item \in TrackedItems :
        /\ completed' = IF ~Contains(completed, item) THEN Append(completed, item)
                                                     ELSE completed
        /\ current' = NoItem
        /\ UNCHANGED <<items, pending, failed>>
        /\ UNCHANGED <<normVars, graphVars, httpVars, filterVars, outboundVars, cliVars>>

\* mark_failed(item); the guard caps the list, which the code lets grow
MarkFailed ==
    \E item \in TrackedItems :
        /\ Len(failed) < MaxFailed
        /\ failed' = Append(failed, item)
        /\ current' = NoItem
        /\ UNCHANGED <<items, pending, completed>>
        /\ UNCHANGED <<normVars, graphVars, httpVars, filterVars, outboundVars, cliVars>>

\* is_complete()
is_complete == Len(pending) = 0 /\ current = NoItem

(***************************************************************************)
(* OutboundLinksAnalyzer.is_outbound_link on its own: an analyzer built    *)
(* with a list of internal domains is asked about one href.                *)
(***************************************************************************)
MaxHrefLen == 3

HrefChars == {"#", "/", ".", ":", " ", "x", "X"}

NamedHrefs ==
    { <<"p", "a", "g", "e", ".", "h", "t", "m", "l">>,
      <<".", ".", "/", "x", "/">>,
      <<"j", "a", "v", "a", "s", "c", "r", "i", "p", "t", ":", "x">>,
      <<"h", "t", "t", "p", ":", "/", "/", "x", ".", "x", "/">>,
      <<"h", "t", "t", "p", ":", "/", "/", "b", ".", "b", "/">> }

DomainLists == { <<>>, << <<"x", ".", "x">> >>, << <<"X", ".", "x">> >> }

\* str.strip(), the blank being the only whitespace of the model
RECURSIVE LStrip(_)
LStrip(s) == IF s # <<>> /\ Head(s) = " " THEN LStrip(Tail(s)) ELSE s

RECURSIVE RStrip(_)
RStrip(s) ==
    IF s # <<>> /\ s[Len(s)] = " " THEN RStrip(SubSeq(s, 1, Len(s) - 1)) ELSE s

Strip(s) == RStrip(LStrip(s))

Anchor == <<"#">>
Javascript == <<"j", "a", "v", "a", "s", "c", "r", "i", "p", "t", ":">>
Slash == <<"/">>

\* self.internal_domains as __init__ stores it
lowered_domains(domains) == [i \in 1..Len(domains) |-> Lower(domains[i])]

is_outbound_link(domains, h) ==
    IF h = <<>> \/ Strip(h) = <<>>
    THEN FALSE
    ELSE LET h1 == Lower(Strip(h))
         IN IF StartsWith(h1, Anchor) \/ StartsWith(h1, Javascript)
                                      \/ StartsWith(h1, Slash)
            THEN FALSE
            ELSE IF \E i \in 1..Len(domains) : SubstringOf(domains[i], h1)
                 THEN FALSE
                 ELSE TRUE

OutboundIdle ==
    /\ ob_pc = "idle"
    /\ internal_domains = <<>>
    /\ ob_href = <<>>
    /\ ob_outbound = FALSE

OutboundInit ==
    /\ ob_pc = "call"
    /\ internal_domains \in DomainLists
    /\ ob_href \in SeqsUpTo(HrefChars, MaxHrefLen) \cup NamedHrefs
    /\ ob_outbound = FALSE

\* analyzer.is_outbound_link(href)
IsOutboundLink ==
    /\ ob_pc = "call"
    /\ ob_outbound' = is_outbound_link(lowered_domains(internal_domains), ob_href)
    /\ ob_pc' = "done"
    /\ UNCHANGED <<internal_domains, ob_href>>
    /\ UNCHANGED <<normVars, graphVars, httpVars, filterVars, progressVars, cliVars>>

(***************************************************************************)
(* The option handling of the two command-line entry points: argparse      *)
(* fills in its own default for an option the command line leaves out,     *)
(* then main() combines the parsed value with the config file.             *)
(***************************************************************************)
UnderlinkedDefault == 3
OverlinkedDefault == 50
TimeoutDefault == 5
WorkersDefault == 20
RetryDefault == 1

\* an integer option or key that is absent
NoInt == [given |-> FALSE, value |-> 0]
Given(n) == [given |-> TRUE, value |-> n]

CliInts == {NoInt, Given(0), Given(7)}
ConfigInts == {NoInt, Given(9)}
CliPaths == {None, Passed(<<"/x">>)}
ConfigPaths == {None, Passed(<<"/y">>)}

\* parser.add_argument(..., default=d) followed by parse_args()
parsed(option, default) == IF option.given THEN option.value ELSE default

\* dict.get(key, default)
get(entry, default) == IF entry.given THEN entry.value ELSE default

\* 'a or b' on integers
IntOr(a, b) == IF a # 0 THEN a ELSE b

\* link_graph.py main(): lines 407-416
link_graph_settings(a, c) ==
    [underlinked |-> IntOr(parsed(a.underlinked, UnderlinkedDefault),
                           get(c.underlinked_min_inbound, UnderlinkedDefault)),
     overlinked |-> IntOr(parsed(a.overlinked, OverlinkedDefault),
                          get(c.overlinked_max_outbound, OverlinkedDefault)),
     exclude |-> OrDefault(a.exclude, get(c.excluded_paths, <<>>))]

\* http_checker.py main(): lines 186-190
http_checker_settings(a, c) ==
    [timeout |-> IntOr(parsed(a.timeout, TimeoutDefault), get(c.timeout, TimeoutDefault)),
     workers |-> IntOr(parsed(a.workers, WorkersDefault),
                       get(c.max_workers, WorkersDefault)),
     retry_count |-> get(c.retry_count, RetryDefault)]

CliIdle ==
    /\ cli_pc = "idle"
    /\ args = <<>>
    /\ config = <<>>
    /\ settings = <<>>

CliInit ==
    /\ \/ /\ cli_pc = "link_graph"
          /\ args \in [underlinked : CliInts, overlinked : CliInts, exclude : CliPaths]
          /\ config \in [underlinked_min_inbound : ConfigInts,
                          overlinked_max_outbound : ConfigInts,
                          excluded_paths : ConfigPaths]
       \/ /\ cli_pc = "http_checker"
          /\ args \in [timeout : CliInts, workers : CliInts]
          /\ config \in [timeout : ConfigInts, max_workers : ConfigInts,
                          retry_count : {NoInt, Given(0)}]
    /\ settings = <<>>

\* main() of link_graph.py up to the construction of the analyzer
LinkGraphMain ==
    /\ cli_pc = "link_graph"
    /\ settings' = link_graph_settings(args, config)
    /\ cli_pc' = "done"
    /\ UNCHANGED <<args, config>>
    /\ UNCHANGED <<normVars, graphVars, httpVars, filterVars, progressVars, outboundVars>>

\* main() of http_checker.py up to the construction of the checker
HttpCheckerMain ==
    /\ cli_pc = "http_checker"
    /\ settings' = http_checker_settings(args, config)
    /\ cli_pc' = "done"
    /\ UNCHANGED <<args, config>>
    /\ UNCHANGED <<normVars, graphVars, httpVars, filterVars, progressVars, outboundVars>>

ToolsIdle == FilterIdle /\ ProgressIdle /\ OutboundIdle /\ CliIdle

(***************************************************************************)
(* normalize_url on its own: every string of up to MaxLen characters over  *)
(* NormChars is normalised, and the result normalised again.               *)
(***************************************************************************)
NormChars == {"/", "x", ".", "#", "?", "%", "2", "3", "5", "F"}

NormInit ==
    /\ norm_pc = "input"
    /\ norm_in \in SeqsUpTo(NormChars, MaxLen)
    /\ norm_out = <<>>
    /\ norm_out2 = <<>>

NormalizeOnce ==
    /\ norm_pc = "input"
    /\ norm_out' = normalize_url(norm_in)
    /\ norm_pc' = "once"
    /\ UNCHANGED <<norm_in, norm_out2, graphVars, httpVars, toolVars>>

NormalizeTwice ==
    /\ norm_pc = "once"
    /\ norm_out2' = normalize_url(norm_out)
    /\ norm_pc' = "twice"
    /\ UNCHANGED <<norm_in, norm_out, graphVars, httpVars, toolVars>>

(***************************************************************************)
(* Specifications.                                                         *)
(***************************************************************************)
Init == NormIdle /\ GraphInit /\ HttpIdle /\ ToolsIdle

Next ==
    \/ BuildStep
    \/ calculate_metrics
    \/ FindOrphans
    \/ FindUnderlinked
    \/ FindOverlinked
    \/ FindLinkSinks

Spec == Init /\ [][Next]_vars

InitNorm == NormInit /\ GraphIdle /\ HttpIdle /\ ToolsIdle

NextNorm == NormalizeOnce \/ NormalizeTwice

SpecNorm == InitNorm /\ [][NextNorm]_vars

InitHttp == NormIdle /\ GraphIdle /\ HttpInit /\ ToolsIdle

NextHttp ==
    \/ \E urls \in UrlDicts : CheckUrls(urls)
    \/ StartProbe
    \/ \E u \in Range(Urls) : \E outcome \in Behaviour(u) : HeadRequest(u, outcome)
    \/ \E u \in Range(Urls) : \E outcome \in Behaviour(u) : GetRequest(u, outcome)
    \/ \E u \in Range(Urls) : SleepDone(u)
    \/ \E u \in Range(Urls) : Collect(u)
    \/ ReturnResults

SpecHttp == InitHttp /\ [][NextHttp]_vars

\* check_urls with the progress its threads make: the executor's worker
\* threads run (StartProbe, SleepDone after time.sleep(1)), every request is
\* made with timeout=self.timeout and so ends in a response or an exception
\* (HeadRequest, GetRequest), and the calling thread runs its as_completed
\* loop to the return statement (Collect, ReturnResults). Nothing obliges the
\* caller to call check_urls again.
FairHttp ==
    /\ WF_vars(StartProbe)
    /\ WF_vars(\E u \in Range(Urls) : \E outcome \in Behaviour(u) : HeadRequest(u, outcome))
    /\ WF_vars(\E u \in Range(Urls) : \E outcome \in Behaviour(u) : GetRequest(u, outcome))
    /\ WF_vars(\E u \in Range(Urls) : SleepDone(u))
    /\ WF_vars(\E u \in Range(Urls) : Collect(u))
    /\ WF_vars(ReturnResults)

SpecHttpFair == InitHttp /\ [][NextHttp]_vars /\ FairHttp

\* check_urls with an interrupt from outside
NextHttpInterrupted ==
    \/ NextHttp
    \/ KeyboardInterrupt
    \/ ExecutorExit

SpecHttpInterrupted == InitHttp /\ [][NextHttpInterrupted]_vars

\* a ProgressTracker on its own
InitProgress ==
    NormIdle /\ GraphIdle /\ HttpIdle /\ FilterIdle /\ ProgressIdle /\ OutboundIdle
        /\ CliIdle
NextProgress == TrackerStart \/ MarkCurrent \/ MarkCompleted \/ MarkFailed
SpecProgress == InitProgress /\ [][NextProgress]_vars

\* is_outbound_link on its own
InitOutbound ==
    NormIdle /\ GraphIdle /\ HttpIdle /\ FilterIdle /\ ProgressIdle /\ OutboundInit
        /\ CliIdle
NextOutbound == IsOutboundLink
SpecOutbound == InitOutbound /\ [][NextOutbound]_vars

InitFilter ==
    NormIdle /\ GraphIdle /\ HttpIdle /\ FilterInit /\ ProgressIdle /\ OutboundIdle
        /\ CliIdle

\* the option handling of the entry points on its own
InitCli ==
    NormIdle /\ GraphIdle /\ HttpIdle /\ FilterIdle /\ ProgressIdle /\ OutboundIdle
        /\ CliInit
NextCli == LinkGraphMain \/ HttpCheckerMain
SpecCli == InitCli /\ [][NextCli]_vars

NextFilter == FilterFalsePositives

SpecFilter == InitFilter /\ [][NextFilter]_vars


(***************************************************************************)
(* Properties.                                                             *)
(***************************************************************************)
RECURSIVE SeqSum(_)
SeqSum(s) == IF s = <<>> THEN 0 ELSE Head(s) + SeqSum(Tail(s))

Built == pc # "idle" /\ processed = HtmlFiles
MetricsDone == pc \in {"orphans", "underlinked", "overlinked", "sinks", "done"}

Sources == DOMAIN link_graph
Targets == UNION {Range(link_graph[s]) : s \in DOMAIN link_graph}
Pages == all_pages \cup Sources \cup Targets \cup DOMAIN inbound_from

Urls_of(rows) == {rows[i].url : i \in 1..Len(rows)}

\* C1: the first check_urls call on a checker returns exactly one result for
\* each URL it was given, whatever the order in which the probes completed.
C1_OneResultPerUrl ==
    (hpc = "returned" /\ calls = 1) =>
        /\ Len(returned) = Len(submitted)
        /\ \A u \in Range(submitted) :
                Cardinality({i \in 1..Len(returned) : returned[i].url = u}) = 1

\* three URLs on two workers, returned in another order than submitted
C1_Witness ==
    /\ hpc = "returned" /\ calls = 1
    /\ max_workers = 2
    /\ Len(submitted) = 3
    /\ Len(returned) = 3
    /\ returned[1].url = "u3" /\ returned[3].url = "u1"

\* C2: once the metrics are calculated, target is in the outbound list of
\* source exactly when source is in the inbound list of target.
C2_ReverseIndex ==
    MetricsDone =>
        \A source \in Pages, target \in Pages :
            (source \in DOMAIN link_graph /\ target \in Range(link_graph[source]))
                <=> (target \in DOMAIN inbound_from /\ source \in Range(inbound_from[target]))

\* a target with two sources, and a page that links to itself
C2_Witness ==
    /\ MetricsDone
    /\ \E t \in DOMAIN inbound_from : Len(inbound_from[t]) = 2
    /\ \E p \in DOMAIN link_graph : p \in Range(link_graph[p])

\* C3: the outbound counts of the pages of the page set add up to the same
\* number as their inbound counts.
C3_EdgeConservation ==
    MetricsDone =>
        LET ps == CHOOSE s \in Perms(all_pages) : TRUE
        IN SeqSum([i \in 1..Len(ps) |-> metrics[ps[i]].outbound])
              = SeqSum([i \in 1..Len(ps) |-> metrics[ps[i]].inbound])

\* three edges, one of them to a page that is no source
C3_Witness ==
    /\ MetricsDone
    /\ \E p \in all_pages : p \notin DOMAIN link_graph /\ metrics[p].inbound = 2
    /\ \E p \in all_pages : metrics[p].outbound = 2

\* C4: normalising a normalised string changes nothing.
C4_Idempotent == norm_pc = "twice" => norm_out2 = norm_out

\* C5: after build_graph every source and target is in the page set, and
\* every non-excluded source document has an outbound entry, which is empty
\* when the document has no extracted links.
C5_PagesAndEntries ==
    Built =>
        /\ Sources \subseteq all_pages
        /\ Targets \subseteq all_pages
        /\ \A f \in HtmlFiles :
              ~is_excluded(file_path_to_url(f)) =>
                  /\ file_path_to_url(f) \in DOMAIN link_graph
                  /\ docs[f].links = {} => link_graph[file_path_to_url(f)] = <<>>

\* the test the specification states for an excluded page: a case-sensitive
\* prefix of the path list, or a suffix of the extension list whatever the case
ExcludedPage(page) ==
    \/ \E pattern \in excluded_paths : StartsWith(page, pattern)
    \/ \E ext \in excluded_extensions : EndsWith(Lower(page), Lower(ext))

\* C6: after build_graph no excluded page is in the page set, a key of the
\* link graph or a target, and every target starts with '/'.
C6_NoExcludedPage ==
    Built =>
        /\ \A page \in all_pages \cup Sources \cup Targets : ~ExcludedPage(page)
        /\ \A target \in Targets : StartsWith(target, <<"/">>)

\* C7: every page of the page set gets outbound = its number of distinct
\* targets, inbound = the number of distinct sources that list it, and the
\* ratio -1, 0 or inbound/outbound to the nearest hundredth; the chain
\* / -> /a/ -> /b/ gives /a/ (1, 1, 1.0) and /b/ (1, 0, -1).
C7_Metrics ==
    MetricsDone =>
        /\ DOMAIN metrics = all_pages
        /\ \A page \in all_pages :
            LET m == metrics[page]
                out == Cardinality(Range(Get(link_graph, page)))
                inb == Cardinality({s \in DOMAIN link_graph : page \in Range(link_graph[s])})
            IN /\ m.outbound = out
               /\ m.inbound = inb
               /\ (out = 0 /\ inb > 0) => m.ratio = -100
               /\ (out = 0 /\ inb = 0) => m.ratio = 0
               /\ out > 0 =>
                    /\ 2 * (100 * inb - m.ratio * out) <= out
                    /\ 2 * (m.ratio * out - 100 * inb) <= out
        /\ (link_graph = (PageRoot :> <<PageA>> @@ PageA :> <<PageB>>)) =>
            /\ metrics[PageA].inbound = 1 /\ metrics[PageA].outbound = 1
            /\ metrics[PageA].ratio = 100
            /\ metrics[PageB].inbound = 1 /\ metrics[PageB].outbound = 0
            /\ metrics[PageB].ratio = -100

\* the chain / -> /a/ -> /b/
C7_Witness ==
    /\ MetricsDone
    /\ link_graph = (PageRoot :> <<PageA>> @@ PageA :> <<PageB>>)
    /\ all_pages = {PageRoot, PageA, PageB}

\* C8: find_orphans returns the pages with no inbound link other than '/',
\* in ascending order, and never '/'.
C8_Orphans ==
    pc \in {"underlinked", "overlinked", "sinks", "done"} =>
        /\ Range(orphans) = {page \in all_pages : metrics[page].inbound = 0 /\ page # PageRoot}
        /\ \A i, j \in 1..Len(orphans) : i < j => StrLess(orphans[i], orphans[j])
        /\ PageRoot \notin Range(orphans)

\* two orphans, and a homepage nobody links to
C8_Witness ==
    /\ pc = "done"
    /\ Len(orphans) = 2
    /\ PageRoot \in all_pages /\ metrics[PageRoot].inbound = 0

\* C9: find_underlinked(threshold) returns the pages with 0 < inbound < threshold.
C9_Underlinked ==
    pc \in {"overlinked", "sinks", "done"} =>
        /\ Urls_of(underlinked) =
              {page \in all_pages : 0 < metrics[page].inbound
                                    /\ metrics[page].inbound < thresholds.underlinked}
        /\ Cardinality(Urls_of(underlinked)) = Len(underlinked)
        /\ \A i \in 1..Len(underlinked) :
              underlinked[i].inbound = metrics[underlinked[i].url].inbound

\* threshold 2: a page with one inbound link is listed, one with two is not
C9_Witness ==
    /\ pc = "done"
    /\ thresholds.underlinked = 2
    /\ \E page \in Urls_of(underlinked) : metrics[page].inbound = 1
    /\ \E page \in all_pages \ Urls_of(underlinked) : metrics[page].inbound = 2

\* C10: find_link_sinks(min_inbound, max_outbound) returns the pages with
\* inbound >= min_inbound and outbound <= max_outbound; a page may be listed
\* as a sink and as under-linked.
C10_LinkSinks ==
    pc = "done" =>
        /\ Urls_of(link_sinks) =
              {page \in all_pages : /\ metrics[page].inbound >= thresholds.sink_min_inbound
                                    /\ metrics[page].outbound <= thresholds.sink_max_outbound}
        /\ Cardinality(Urls_of(link_sinks)) = Len(link_sinks)

\* a page that is a sink and under-linked, with outbound = max_outbound
C10_Witness ==
    /\ pc = "done"
    /\ \E page \in Urls_of(link_sinks) \cap Urls_of(underlinked) :
            metrics[page].outbound = thresholds.sink_max_outbound
                /\ thresholds.sink_max_outbound = 1

\* rows[i] and rows[j], i < j, are in the order the claim gives: by count
\* (keys), and by ascending page identity where the counts are equal
TieOrdered(rows, keys, reverse) ==
    \A i, j \in 1..Len(rows) :
        i < j =>
            /\ IF reverse THEN keys[i] >= keys[j] ELSE keys[i] <= keys[j]
            /\ keys[i] = keys[j] => StrLess(rows[i].url, rows[j].url)

\* C11: under-linked is ascending by inbound count, over-linked descending by
\* outbound count, sinks descending by inbound count, and in each list pages
\* with equal counts are in ascending order of page identity, whatever the
\* order in which the pages are stored.
C11_Ordered ==
    /\ pc \in {"overlinked", "sinks", "done"} =>
         TieOrdered(underlinked, [i \in 1..Len(underlinked) |-> underlinked[i].inbound],
                    FALSE)
    /\ pc \in {"sinks", "done"} =>
         TieOrdered(overlinked, [i \in 1..Len(overlinked) |-> overlinked[i].outbound],
                    TRUE)
    /\ pc = "done" =>
         TieOrdered(link_sinks, [i \in 1..Len(link_sinks) |-> link_sinks[i].inbound],
                    TRUE)

\* check_url returns for u in this step
Returns(u) == future[u] # "finished" /\ future'[u] = "finished"

\* the attempts check_url has made on u when it returns: the loop variable
\* counts from 0, and with an empty range the body never ran
AttemptsMade(u) == IF future[u] = "pending" THEN 0 ELSE attempt[u] + 1

\* C12: a probe whose every attempt times out makes retry_count + 1 attempts
\* (the first and retry_count retries) and then yields one result: broken,
\* reason "Timeout", no status code.
C12_TimeoutAttempts ==
    [][\A u \in Range(Urls) :
          (Returns(u) /\ fresult'[u].status_message = "Timeout") =>
              /\ AttemptsMade(u) = retry_count + 1
              /\ fresult'[u] = Result(u, NoStatus, "Timeout", TRUE)]_vars

\* the requests of the last attempt on u ended in exception exc
Failed(u, exc) ==
    /\ exchange[u] # <<>>
    /\ exchange[u][Len(exchange[u])].outcome = Raised(exc)

\* the last request of the last attempt on u was answered with this status
Answered(u, status) ==
    /\ exchange[u] # <<>>
    /\ exchange[u][Len(exchange[u])].outcome = Response(status)

\* C13: a probe that fails with a TLS/certificate failure is reported broken
\* immediately, with reason "SSL Certificate Error" and no status code (not
\* with the connection-error reason).
C13_TlsFailure ==
    \A u \in Range(Urls) :
        Failed(u, "SSLError") =>
            /\ future[u] = "finished"
            /\ fresult[u] = Result(u, NoStatus, "SSL Certificate Error", TRUE)

\* C14 as stated: a probe that fails with a connection failure is reported
\* broken at once, without retry, with no status code and the reason
\* "Connection Error".
C14_ConnectionFailureAsStated ==
    \A u \in Range(Urls) :
        Failed(u, "ConnectionError") =>
            /\ future[u] = "finished"
            /\ fresult[u] = Result(u, NoStatus, "Connection Error", TRUE)

\* C14: a probe that fails with a connection failure is reported broken at
\* once, without retry whatever retry_count is, with no status code and the
\* reason "Connection Error (Domain may not exist)".
C14_ConnectionFailure ==
    \A u \in Range(Urls) :
        Failed(u, "ConnectionError") =>
            /\ future[u] = "finished"
            /\ fresult[u] =
                 Result(u, NoStatus, "Connection Error (Domain may not exist)", TRUE)

C14_Witness ==
    /\ retry_count > 1
    /\ Failed("u3", "ConnectionError")
    /\ future["u3"] = "finished"
    /\ fresult["u3"].status_code = NoStatus

\* the results the current check_urls call has appended to self.results
Appended == SubSeq(results, Len(results) - Cardinality(yielded) + 1, Len(results))

\* the last request of the last attempt on u raised an exception
FailedSomehow(u) ==
    /\ exchange[u] # <<>>
    /\ exchange[u][Len(exchange[u])].outcome.raised

\* C15: no failure of a probe leaves the validator: whatever a probe's
\* requests did (answered, timed out, connection failure, redirect loop, TLS
\* failure, any other fault), check_url returns one result for its URL, broken
\* and without status code in every failure case; check_urls appends exactly
\* one result per completed URL, and returns with a result for every
\* submitted URL, the failed ones and the others alike.
C15_NoFailurePropagates ==
    /\ \A u \in Range(Urls) :
        future[u] = "finished" =>
            /\ fresult[u].url = u
            /\ (exchange[u] = <<>> /\ u \notin yielded) \/ FailedSomehow(u) =>
                    fresult[u].is_broken /\ fresult[u].status_code = NoStatus
            /\ fresult[u].status_code = NoStatus => fresult[u].is_broken
    /\ \A u \in yielded :
        /\ Cardinality({i \in 1..Len(Appended) : Appended[i].url = u}) = 1
        /\ \E i \in 1..Len(Appended) : Appended[i] = fresult[u]
    /\ hpc = "returned" => yielded = Range(submitted) /\ returned = results

\* a call returned with the result of a redirect loop, of a timeout and of
\* an answered request
C15_Witness ==
    /\ hpc = "returned"
    /\ submitted = Urls
    /\ \E i \in 1..Len(returned) :
            returned[i] = Result("u3", NoStatus, "Too Many Redirects", TRUE)
    /\ \E i \in 1..Len(returned) : returned[i] = Result("u2", NoStatus, "Timeout", TRUE)
    /\ \E i \in 1..Len(returned) : returned[i] = Result("u1", 399, "-", FALSE)

\* C16: a result that carries a status code is broken exactly when the status
\* code is >= 400, and the status code is that of the last response received
\* (404 gives broken with status_code 404; 200 or 399 gives not broken).
C16_BrokenIffStatus400 ==
    \A u \in Range(Urls) :
        /\ (future[u] = "finished" /\ fresult[u].status_code # NoStatus) =>
              /\ fresult[u].is_broken <=> fresult[u].status_code >= 400
              /\ u \notin yielded => Answered(u, fresult[u].status_code)
        /\ \A status \in StatusCodes :
              (future[u] = "finished" /\ Answered(u, status)) =>
                    fresult[u].status_code = status

\* a GET answered 399 after a HEAD answered 405, and a HEAD answered 404
C16_Witness ==
    /\ future["u1"] = "finished" /\ "u1" \notin yielded
    /\ Len(exchange["u1"]) = 2
    /\ Answered("u1", 399)
    /\ ~fresult["u1"].is_broken
    /\ \E i \in 1..Len(results) : results[i] = Result("u1", 404, "Not Found", TRUE)

\* the HEAD response of the last attempt on u asks for the fallback
HeadRefused(u) ==
    /\ exchange[u] # <<>>
    /\ ~exchange[u][1].outcome.raised
    /\ exchange[u][1].outcome.status \in {405, 403}

\* C17: an attempt issues HEAD first; it issues GET exactly when the HEAD
\* response has status 405 or 403, and once; the result is then the verdict
\* and the status code of the GET response.
C17_HeadThenGet ==
    \A u \in Range(Urls) :
        /\ exchange[u] # <<>> => exchange[u][1].method = "HEAD"
        /\ Len(exchange[u]) <= 2
        /\ Len(exchange[u]) = 2 => exchange[u][2].method = "GET" /\ HeadRefused(u)
        /\ future[u] = "get" <=> (HeadRefused(u) /\ Len(exchange[u]) = 1)
        /\ \A status \in StatusCodes :
              (Len(exchange[u]) = 2 /\ Answered(u, status)) =>
                 /\ future[u] = "finished"
                 /\ fresult[u] = Result(u, status, Reason(status), status >= 400)

\* HEAD answered 403, GET answered 200: not broken
C17_Witness ==
    /\ future["u2"] = "finished"
    /\ exchange["u2"] = <<Request("HEAD", Response(403)), Request("GET", Response(200))>>
    /\ fresult["u2"] = Result("u2", 200, "OK", FALSE)

\* C18: during check_urls at most max_workers probes are executing, a probe
\* sleeping between two attempts counted as one of them, and every URL that
\* is neither executing nor finished waits in the queue; whenever fewer than
\* max_workers probes are executing, sleeping ones included, the next queued
\* URL can be taken.
C18_BoundedWorkers ==
    /\ Cardinality(Running) <= max_workers
    /\ \A u \in Range(submitted) :
          /\ future[u] = "pending" <=> u \in Range(queue)
          /\ future[u] \in {"head", "get", "sleep"} <=> u \in Running
          /\ future[u] \in {"pending", "head", "get", "sleep", "finished"}
    /\ (hpc = "collect" /\ queue # <<>> /\ Cardinality(Running) < max_workers) =>
          ENABLED StartProbe

\* one probe sleeps before its retry, the other slot has finished a URL and
\* takes the next from the queue
C18_Witness ==
    /\ max_workers = 2
    /\ submitted = Urls
    /\ future["u2"] = "sleep"
    /\ future["u1"] = "finished"
    /\ queue = <<"u3">>
    /\ Running = {"u2"}
    /\ ENABLED StartProbe

\* every submitted probe has completed and its result is in the returned list
AllCompleted ==
    /\ \A u \in Range(submitted) :
          /\ future[u] = "finished"
          /\ \E i \in 1..Len(returned) : returned[i] = fresult[u]
    /\ queue = <<>>
    /\ Running = {}

\* C19: check_urls returns only after every submitted probe has completed,
\* broken and failed ones never stopping the others from running and being
\* collected, and every call of check_urls eventually returns.
C19_ReturnsAfterAll ==
    /\ [](hpc = "returned" => AllCompleted)
    /\ [](hpc = "collect" => <>(hpc = "returned"))

\* the first result collected was a failure, and the call returned all three
C19_Witness ==
    /\ hpc = "returned"
    /\ submitted = Urls
    /\ Len(returned) = 3
    /\ returned[1].is_broken /\ returned[1].status_code = NoStatus
    /\ \E i \in 2..3 : ~returned[i].is_broken

\* C20: when check_urls is cancelled while probes are in flight, the results
\* already collected are kept, the in-flight and queued probes are abandoned
\* (they make no further step), and the call ends by returning the list of
\* the results collected so far, in which the URLs that had not completed
\* are omitted.
C20_Cancellation ==
    [][hpc = "shutdown" =>
          /\ future' = future /\ queue' = queue /\ fresult' = fresult
          /\ results' = results
          /\ hpc' = "returned"
          /\ returned' = results
          /\ \A u \in Range(submitted) \ yielded :
                \A i \in 1..Len(returned') : returned'[i].url # u]_vars

\* the list a caller configured: the one passed, or the default when none
\* was passed
Configured(arg, default) == IF arg.given THEN arg.value ELSE default

\* result is a false positive by the rules as configured; host names and
\* schemes compare without regard to case
ReclassifiedAsConfigured(result) ==
    LET domains == Configured(bot_blocker_domains, DefaultBotBlockers)
        codes == Configured(ignore_status_codes, DefaultIgnoreCodes)
    IN \/ \E i \in 1..Len(domains) : SubstringOf(Lower(domains[i]), Lower(result.url))
       \/ \E i \in 1..Len(codes) : result.status_code = codes[i]
       \/ StartsWith(Lower(result.url), Mailto)
       \/ StartsWith(Lower(result.url), Tel)

\* C21: only broken results are considered; a broken result is in the
\* false-positive list exactly when its URL contains a configured bot-blocker
\* domain, or its status code is in the configured ignore list, or its scheme
\* is mailto: or tel:, and every other broken result is in the real-broken
\* list.
C21_FilterRule ==
    filter_pc = "done" =>
        /\ Range(real_broken) \cup Range(false_positives) \subseteq Range(filter_results)
        /\ \A r \in Range(filter_results) :
              /\ r \in Range(false_positives) <=>
                    (r.is_broken /\ ReclassifiedAsConfigured(r))
              /\ r \in Range(real_broken) <=>
                    (r.is_broken /\ ~ReclassifiedAsConfigured(r))

\* C22: the lists the caller passes are the lists applied, the empty list
\* included: with an empty bot-blocker list and an empty ignore list only
\* mailto: and tel: results are reclassified.
C22_EmptyListsApplied ==
    (/\ filter_pc = "done"
     /\ bot_blocker_domains = Passed(<<>>)
     /\ ignore_status_codes = Passed(<<>>)) =>
        \A r \in Range(filter_results) :
            r \in Range(false_positives) <=>
                /\ r.is_broken
                /\ \/ StartsWith(Lower(r.url), Mailto)
                   \/ StartsWith(Lower(r.url), Tel)

\* s up to, not including, its first c
UpToFirst(s, c) ==
    IF \E i \in 1..Len(s) : s[i] = c
    THEN SubSeq(s, 1, (CHOOSE i \in 1..Len(s) : s[i] = c /\ \A j \in 1..(i - 1) : s[j] # c) - 1)
    ELSE s

\* s has a "%" followed by two hexadecimal digits
HasEscape(s) ==
    \E i \in 1..(Len(s) - 2) : s[i] = "%" /\ s[i + 1] \in HexDigits /\ s[i + 2] \in HexDigits

\* the part of s after its last "/"
FinalSegment(s) ==
    LET slashes == {i \in 1..Len(s) : s[i] = "/"}
        last == IF slashes = {} THEN 0 ELSE CHOOSE i \in slashes : \A j \in slashes : j <= i
    IN SubSeq(s, last + 1, Len(s))

analysis_link_graph == [k \in DOMAIN link_graph |-> link_graph[k]]

\* C24: the link graph of analyze's result maps every source to the list of
\* its distinct targets in sorted order, whatever the order in which the
\* links were extracted.
C24_SortedLinkGraph ==
    pc = "done" =>
        \A source \in DOMAIN analysis_link_graph :
            LET targets == analysis_link_graph[source]
            IN /\ \A i, j \in 1..Len(targets) : i # j => targets[i] # targets[j]
               /\ targets = Sorted(targets)


\* C25: is_complete() is true only when every item handed to start is in the
\* completed list or in the failed list: no item is dropped, whatever the
\* order of the mark_* calls.
C25_CompleteMeansProcessed ==
    is_complete => \A i \in 1..Len(items) :
                       Contains(completed, items[i]) \/ Contains(failed, items[i])


\* a URI scheme at the start of h: letters, then a colon
HasScheme(h) ==
    /\ Contains(h, ":")
    /\ SplitFirst(h, ":") # <<>>
    /\ \A c \in Range(SplitFirst(h, ":")) : c \notin {"#", "/", ".", " ", "?"}

\* h is a relative reference such as 'page.html' or '../x/'
RelativeLink(h) == Strip(h) # <<>> /\ ~HasScheme(Strip(h))

\* C26: is_outbound_link answers False for anchors, javascript: links,
\* root-relative links, relative links such as 'page.html' and '../x/', and
\* hrefs that contain an internal domain.
C26_NotOutbound ==
    ob_pc = "done" =>
        LET h == Lower(Strip(ob_href))
        IN (\/ StartsWith(h, Anchor)
            \/ StartsWith(h, Javascript)
            \/ StartsWith(h, Slash)
            \/ RelativeLink(ob_href)
            \/ \E i \in 1..Len(internal_domains) :
                   SubstringOf(Lower(internal_domains[i]), h))
           => ob_outbound = FALSE


\* C27: the list a check_urls call returns holds exactly the results of that
\* call's URLs, one for each: no result of an earlier call on the same
\* checker is in it.
C27_ReturnsThisCall ==
    hpc = "returned" =>
        /\ Len(returned) = Len(submitted)
        /\ {returned[i].url : i \in 1..Len(returned)} = Range(submitted)


\* the pages build_graph added to the page set as targets of a link: line 155
LinkTargets == UNION {docs[f].links : f \in HtmlFiles}

\* C28: once the analysis is done, every page that entered the page set as
\* the target of a link has at least one inbound link and is not reported as
\* an orphan, also when two files of the corpus map to the same URL.
C28_TargetsHaveInbound ==
    pc = "done" =>
        \A p \in LinkTargets : metrics[p].inbound >= 1 /\ p \notin Range(orphans)


\* the value of the config file is used when the command line leaves the
\* option out, the built-in default when the config file has no value either
FromConfigOrDefault(option, entry, default, setting) ==
    ~option.given => setting = (IF entry.given THEN entry.value ELSE default)

\* C29: in both entry points an option the command line does not give takes
\* the value of the config file, and the built-in default only when the
\* config file does not give one either.
C29_ConfigBeforeDefault ==
    /\ (cli_pc = "done" /\ "underlinked" \in DOMAIN settings) =>
          /\ FromConfigOrDefault(args.underlinked, config.underlinked_min_inbound,
                                 UnderlinkedDefault, settings.underlinked)
          /\ FromConfigOrDefault(args.overlinked, config.overlinked_max_outbound,
                                 OverlinkedDefault, settings.overlinked)
          /\ FromConfigOrDefault(args.exclude, config.excluded_paths,
                                 <<>>, settings.exclude)
    /\ (cli_pc = "done" /\ "timeout" \in DOMAIN settings) =>
          /\ FromConfigOrDefault(args.timeout, config.timeout,
                                 TimeoutDefault, settings.timeout)
          /\ FromConfigOrDefault(args.workers, config.max_workers,
                                 WorkersDefault, settings.workers)


\* C30: whatever retry_count the checker is built with, 0 included, check_url
\* has sent at least one request to the URL when it returns its result, and
\* it has made no more than retry_count + 1 attempts.
C30_ProbedBeforeReported ==
    [][\A u \in Range(Urls) :
          Returns(u) => /\ exchange'[u] # <<>>
                        /\ AttemptsMade(u) >= 1
                        /\ AttemptsMade(u) <= retry_count + 1]_vars

====
